---- MODULE Spec2Model ----
(***************************************************************************)
(* Model of the thermal-video tracking engine of classifier-pipeline       *)
(* (src/Tracker.py): TrackingFrame, Track.sync_new_location,               *)
(* Tracker.extract, Tracker.get_tracks_statistics, Tracker.filter_tracks.  *)
(*                                                                         *)
(* Numbers.  Box coordinates are integers (cv2 component statistics).      *)
(* Box centres x + width/2 are kept in half pixels (mid_x2 = 2x + width).  *)
(* The float velocity (vx, vy) and the float statistics movement,          *)
(* max_offset and score are kept in fixed point, VScale units per pixel,   *)
(* each float operation rounded to the nearest unit (square roots rounded  *)
(* down).  Comparisons of ratios against 0.10, 0.5 and 4.0 are done        *)
(* exactly, by cross multiplication.                                       *)
(***************************************************************************)
EXTENDS Integers, Sequences, FiniteSets, TLC

VARIABLES
    clip,            \* the loaded clip: temperature statistics and what the detector finds in it
    stats,           \* Tracker.stats (mean_temp, max_temp, min_temp)
    pc,              \* position of the caller: constructed, frames, extracted, raised
    frame_number,    \* loop variable of Tracker.extract
    new_regions,     \* regions of interest of the frame last processed
    used_regions,    \* used_regions of the frame last processed (indices into new_regions)
    active_tracks,   \* active_tracks of Tracker.extract (object references)
    objs,            \* every Track object constructed, in construction order
    track_history,   \* Tracker.track_history: objs index -> list of records
    tracks,          \* Tracker.tracks (object references)
    Track_track_id,  \* the class attribute Track._track_id
    max_tracks,      \* Tracker.max_tracks
    MPEGWriter,      \* Tracker.MPEGWriter
    include_prediction, \* Tracker.include_prediction
    classifier,      \* Tracker.classifier
    files,           \* the files written by export and display
    printed,         \* the "mass history mismatch" lines printed by export
    exported,        \* the tracks the last export reached, each with its window_frames
    calls,           \* the export and display calls made so far and how each ended
    other_tracker,   \* the extraction pass of a second Tracker of the process
    rects,           \* two boxes handed to overlap_area or to fit_to_screen
    measured         \* what overlap_area and area returned, what fit_to_screen left

extract_vars == <<clip, stats, pc, frame_number, new_regions, used_regions, active_tracks,
                  objs, track_history, tracks, Track_track_id, max_tracks>>

export_vars == <<MPEGWriter, include_prediction, classifier, files, printed,
                 exported, calls>>

geometry_vars == <<rects, measured>>

\* what the methods of one Tracker's extraction pass do not touch
outside_extract == <<export_vars, other_tracker, geometry_vars>>

vars == <<extract_vars, export_vars, other_tracker, geometry_vars>>

(***************************************************************************)
(* Bounds of the model                                                     *)
(***************************************************************************)
\* most export and display calls made on a Tracker
MaxCalls == 2
\* most tracks the second Tracker of the process creates
MaxOtherTracks == 2
\* largest coordinate and largest side of the boxes handed to overlap_area
MaxCoord == 2
MaxSide == 2
\* longest clip whose per-frame detections are chosen freely
MaxFreeFrames == 3
\* number of frames of the scripted (moving blob) clips
ScriptFrames == 28
\* largest max_tracks a caller sets
MaxMaxTracks == 2

(***************************************************************************)
(* Program constants                                                       *)
(***************************************************************************)
MAX_MEAN_TEMPERATURE_THRESHOLD == 3800
MAX_TEMPERATURE_RANGE_THRESHOLD == 2000
\* rects are enlarged by this padding in _get_regions_of_interest
padding == 12
\* frames per second used by get_tracks_statistics (9 * 3 frames, / 9.0)
FramesPerSecond == 9
\* minimum track length in seconds
MinSeconds == 3
\* minimum max_offset in pixels (4.0)
MinOffset == 4

\* fixed-point units per pixel for velocities and scores
VScale == 2 * 100

\* status strings of Track
TARGET_NONE == "none"
TARGET_ACQUIRED == "acquired"
TARGET_LOST == "lost"
TARGET_SPLIT == "split"

\* max_tracks = None
None == -1

\* the writer class a caller assigns to Tracker.MPEGWriter
FFMpegWriter == 1

\* the Classifier _init_classifier loads
Classifier == 1

(***************************************************************************)
(* Arithmetic helpers                                                      *)
(***************************************************************************)
Abs(a) == IF a < 0 THEN -a ELSE a

Min(a, b) == IF a < b THEN a ELSE b

Max(a, b) == IF a > b THEN a ELSE b

\* Python int(): truncation toward zero of a / b, b > 0
TruncDiv(a, b) == IF a >= 0 THEN a \div b ELSE -((-a) \div b)

\* a / b rounded to the nearest integer, b > 0
RoundDiv(a, b) == IF a >= 0 THEN (2 * a + b) \div (2 * b) ELSE -((2 * (-a) + b) \div (2 * b))

RECURSIVE ISqrtIter(_, _, _)
ISqrtIter(n, lo, hi) ==
    IF lo >= hi THEN lo
    ELSE LET mid == (lo + hi + 1) \div 2
         IN  IF mid * mid <= n THEN ISqrtIter(n, mid, hi) ELSE ISqrtIter(n, lo, mid - 1)

\* floor of the square root of n, 0 <= n < 2^31
ISqrt(n) == ISqrtIter(n, 0, 46340)

Range(s) == {s[i] : i \in 1..Len(s)}

RECURSIVE SumSeq(_)
SumSeq(s) == IF s = <<>> THEN 0 ELSE Head(s) + SumSeq(Tail(s))

RECURSIVE MaxSeq(_)
MaxSeq(s) == IF Len(s) = 1 THEN s[1] ELSE Max(Head(s), MaxSeq(Tail(s)))

RECURSIVE Flatten(_)
Flatten(ss) == IF ss = <<>> THEN <<>> ELSE Head(ss) \o Flatten(Tail(ss))

(***************************************************************************)
(* TrackingFrame                                                           *)
(***************************************************************************)
TrackingFrame(topleft_x, topleft_y, w, h, m) ==
    [x |-> topleft_x, y |-> topleft_y, width |-> w, height |-> h, mass |-> m]

copy(b) == TrackingFrame(b.x, b.y, b.width, b.height, b.mass)

\* mid_x and mid_y in half pixels: 2 * (x + width / 2)
mid_x2(b) == 2 * b.x + b.width

mid_y2(b) == 2 * b.y + b.height

left(b) == b.x

top(b) == b.y

right(b) == b.x + b.width

bottom(b) == b.y + b.height

\* variant: the right edge is taken from self alone
overlap_area_to_own_edge(self, other) ==
    LET x_overlap == Max(0, right(self) - Max(left(self), left(other)))
        y_overlap == Max(0, Min(bottom(self), bottom(other)) - Max(top(self), top(other)))
    IN  x_overlap * y_overlap

\* variant: the vertical overlap repeats the horizontal one
overlap_area_x_twice(self, other) ==
    LET x_overlap == Max(0, Min(right(self), right(other)) - Max(left(self), left(other)))
    IN  x_overlap * x_overlap

overlap_area(self, other) ==
    LET x_overlap == Max(0, Min(right(self), right(other)) - Max(left(self), left(other)))
        y_overlap == Max(0, Min(bottom(self), bottom(other)) - Max(top(self), top(other)))
    IN  x_overlap * y_overlap

area(b) == b.width * b.height

(***************************************************************************)
(* Track                                                                   *)
(***************************************************************************)
\* Track.__init__ ; id is the value of Track._track_id read by the constructor
Track(id, x, y, w, h, m) ==
    LET bounds == TrackingFrame(x, y, w, h, 0)
    IN  [ bounds |-> bounds,
          status |-> TARGET_NONE,
          origin |-> <<mid_x2(bounds), mid_y2(bounds)>>,
          first_frame |-> 0,
          id |-> id,
          vx |-> 0,
          vy |-> 0,
          mass |-> m,
          mass_history |-> <<>>,
          bounds_history |-> <<>>,
          prediction_history |-> <<>>,
          movement |-> 0,
          max_offset |-> 0,
          score |-> 0 ]

\* offset from where the object was first detected, in half pixels
offsetx(t) == mid_x2(t.bounds) - t.origin[1]

offsety(t) == mid_x2(t.bounds) - t.origin[1]

\* the box sync_new_location predicts: int(bounds.x + vx), int(bounds.y + vy)
predicted_bounds(t) ==
    TrackingFrame(TruncDiv(t.bounds.x * VScale + t.vx, VScale),
                  TruncDiv(t.bounds.y * VScale + t.vy, VScale),
                  t.bounds.width, t.bounds.height, 0)

\* overlap_fraction > 0.10
overlaps(new_bounds, region) ==
    20 * overlap_area(new_bounds, region) > area(new_bounds) + area(region)

\* relative_area_difference < 0.5
area_close(new_bounds, region) ==
    2 * Abs(area(region) - area(new_bounds)) < area(new_bounds)

\* indices (into regions_of_interest) of the regions appended to similar_regions
similar_regions(t, regions_of_interest) ==
    LET new_bounds == predicted_bounds(t)
    IN  SelectSeq([i \in 1..Len(regions_of_interest) |-> i],
                  LAMBDA i : overlaps(new_bounds, regions_of_interest[i])
                             /\ area_close(new_bounds, regions_of_interest[i]))

\* variant: only the similar regions are returned
overlapping_regions_similar_only(t, regions_of_interest) ==
    similar_regions(t, regions_of_interest)

\* indices of the regions appended to overlapping_regions (the return value)
overlapping_regions(t, regions_of_interest) ==
    LET new_bounds == predicted_bounds(t)
    IN  SelectSeq([i \in 1..Len(regions_of_interest) |-> i],
                  LAMBDA i : overlaps(new_bounds, regions_of_interest[i]))

\* variant: the weights of the old and the new velocity are exchanged
smoothed_towards_new(v, new_v2) == RoundDiv(v + 9 * RoundDiv(new_v2 * VScale, 2), 10)

\* smooth * v + (1 - smooth) * new_v with smooth = 0.9; new_v2 in half pixels
smoothed(v, new_v2) == RoundDiv(9 * v + RoundDiv(new_v2 * VScale, 2), 10)

\* variant: the position is taken from the region, its size and mass are not
follow_keeps_size(t, region) ==
    LET old_x == mid_x2(t.bounds)
        old_y == mid_y2(t.bounds)
        b     == [t.bounds EXCEPT !.x = region.x, !.y = region.y]
    IN  [t EXCEPT !.status = TARGET_ACQUIRED,
                  !.bounds = b,
                  !.vx = smoothed(t.vx, mid_x2(b) - old_x),
                  !.vy = smoothed(t.vy, mid_y2(b) - old_y)]

\* the "just follow target" branch of sync_new_location
follow(t, region) ==
    LET old_x == mid_x2(t.bounds)
        old_y == mid_y2(t.bounds)
        b     == [t.bounds EXCEPT !.x = region.x, !.y = region.y,
                                  !.width = region.width, !.height = region.height]
    IN  [t EXCEPT !.status = TARGET_ACQUIRED,
                  !.bounds = b,
                  !.mass = region.mass,
                  !.vx = smoothed(t.vx, mid_x2(b) - old_x),
                  !.vy = smoothed(t.vy, mid_y2(b) - old_y)]

\* variant: any similar region at all makes the target SPLIT
sync_new_location_split_from_one(t, regions_of_interest) ==
    LET similar == similar_regions(t, regions_of_interest)
    IN  IF Len(similar) = 0 THEN [t EXCEPT !.status = TARGET_LOST]
        ELSE [t EXCEPT !.status = TARGET_SPLIT]

\* variant: a target that split is re-seeded, the track is given up
sync_new_location_split_is_lost(t, regions_of_interest) ==
    LET similar == similar_regions(t, regions_of_interest)
    IN  IF Len(similar) # 1 THEN [t EXCEPT !.status = TARGET_LOST]
        ELSE follow(t, regions_of_interest[similar[1]])

\* variant: an ambiguous match follows the first similar region
sync_new_location_follows_first(t, regions_of_interest) ==
    LET similar == similar_regions(t, regions_of_interest)
    IN  IF Len(similar) = 0 THEN [t EXCEPT !.status = TARGET_LOST]
        ELSE follow(t, regions_of_interest[similar[1]])

\* the track after sync_new_location(regions_of_interest)
sync_new_location(t, regions_of_interest) ==
    LET similar == similar_regions(t, regions_of_interest)
    IN  IF Len(similar) = 0 THEN [t EXCEPT !.status = TARGET_LOST]
        ELSE IF Len(similar) >= 2 THEN [t EXCEPT !.status = TARGET_SPLIT]
        ELSE follow(t, regions_of_interest[similar[1]])

(***************************************************************************)
(* Clips: what cv2.connectedComponentsWithStats reports for each frame     *)
(***************************************************************************)
Component(cx, cy, cw, ch, carea) == [x |-> cx, y |-> cy, w |-> cw, h |-> ch, area |-> carea]

\* detections a freely chosen frame may hold (160 x 120 pixel frames)
FreeFrames ==
    LET A  == Component(20, 20, 1, 1, 1)
        B  == Component(26, 20, 2, 1, 2)
        C  == Component(20, 20, 20, 20, 300)
        D  == Component(0, 0, 3, 1, 3)
        D2 == Component(2, 0, 3, 1, 3)
        E  == Component(27, 0, 3, 1, 3)
        F  == Component(100, 80, 2, 2, 4)
    IN  { <<>>, <<A>>, <<B>>, <<A, B>>, <<C>>, <<D>>, <<D2>>, <<E>>, <<B, F>> }

\* a blob that appears in frame from, moves by (sx, sy) per frame for `moves`
\* frames, then rests, and is seen in `life` frames
Blob(bx, by, step, m, f, l) ==
    [x |-> bx, y |-> by, sx |-> step[1], sy |-> step[2], moves |-> m, from |-> f, life |-> l]

FirstBlobs ==
    { Blob(20, 20, step, m, f, l) :
        step \in {<<1, 0>>, <<0, 1>>, <<1, 1>>}, m \in {2, 3}, f \in {0, 1}, l \in {2, 26, 27, 28} }

SecondBlobs ==
    { Blob(100, 60, <<1, 0>>, m, 0, l) : m \in {3, 4}, l \in {27, 28} }

ScriptedBlobs == { <<b>> : b \in FirstBlobs } \cup { <<b, c>> : b \in FirstBlobs, c \in SecondBlobs }

\* temperature statistics of a clip: mean in tenths, max, min
Temperatures ==
    { [mean10 |-> 35000, max |-> 3700, min |-> 3200],
      [mean10 |-> 38000, max |-> 5000, min |-> 3000],
      [mean10 |-> 38005, max |-> 3900, min |-> 3700],
      [mean10 |-> 38010, max |-> 3900, min |-> 3700],
      [mean10 |-> 35000, max |-> 5001, min |-> 3000] }

Clips ==
    { [kind |-> "free", n |-> n, blobs |-> <<>>, temp |-> t] :
        n \in 1..MaxFreeFrames, t \in Temperatures }
    \cup
    { [kind |-> "script", n |-> ScriptFrames, blobs |-> bs,
       temp |-> [mean10 |-> 35000, max |-> 3700, min |-> 3200]] : bs \in ScriptedBlobs }

BlobAt(b, f) ==
    LET k == Min(f - b.from, b.moves)
    IN  Component(b.x + k * b.sx, b.y + k * b.sy, 2, 2, 4)

\* the components of frame f of a scripted clip
ScriptFrame(blobs, f) ==
    LET alive == SelectSeq(blobs, LAMBDA b : b.from <= f /\ f < b.from + b.life)
    IN  [i \in 1..Len(alive) |-> BlobAt(alive[i], f)]

\* the component statistics the detector may find in frame f of clip c
Frames(c, f) ==
    IF c.kind = "free" THEN FreeFrames
    ELSE IF c.kind = "script" THEN {ScriptFrame(c.blobs, f)}
    ELSE {c.frames[f + 1]}

\* a clip given frame by frame; merged: the frames in which two blobs are
\* detected as one component
Listed(fs, m) ==
    [kind |-> "listed", n |-> Len(fs), blobs |-> <<>>,
     temp |-> [mean10 |-> 35000, max |-> 3700, min |-> 3200], frames |-> fs, merged |-> m]

\* one 10 x 10 blob that starts at (x0, y0), moves by +2 pixels on both axes
\* per frame, is seen in 30 frames and has left in the last frame
SteadyClip(x0, y0) ==
    Listed([f \in 1..31 |->
               IF f <= 30 THEN <<Component(x0 + 2 * (f - 1), y0 + 2 * (f - 1), 10, 10, 100)>>
               ELSE <<>>], {})

SteadyClips == { SteadyClip(x0, y0) : x0 \in {0, 12, 50, 92}, y0 \in {0, 12, 52} }

(***************************************************************************)
(* Tracker                                                                 *)
(***************************************************************************)
\* int(np.asarray(self.frames).mean()), .max(), .min()
_get_clip_stats(c) ==
    [mean_temp |-> TruncDiv(c.temp.mean10, 10), max_temp |-> c.temp.max, min_temp |-> c.temp.min]

\* the rects built from the component statistics
_get_regions_of_interest(components) ==
    [i \in 1..Len(components) |->
        TrackingFrame(components[i].x - padding, components[i].y - padding,
                      components[i].w + padding * 2, components[i].h + padding * 2,
                      components[i].area)]

\* variant: frames are numbered from one
history_record_from_one(fn, t) ==
    [frame_number |-> fn + 1, bounds |-> copy(t.bounds), v |-> <<t.vx, t.vy>>,
     d |-> <<offsetx(t), offsety(t)>>, mass |-> t.mass]

\* the record appended to track_history in step 5
history_record(fn, t) ==
    [frame_number |-> fn, bounds |-> copy(t.bounds), v |-> <<t.vx, t.vy>>,
     d |-> <<offsetx(t), offsety(t)>>, mass |-> t.mass]

\* the Tracker after Tracker(full_path) on one of the clips cs
Constructed(cs) ==
    /\ clip \in cs
    /\ stats = _get_clip_stats(clip)
    /\ pc = "constructed"
    /\ frame_number = 0
    /\ new_regions = <<>>
    /\ used_regions = <<>>
    /\ active_tracks = <<>>
    /\ objs = <<>>
    /\ track_history = <<>>
    /\ tracks = <<>>
    /\ max_tracks = None
    /\ MPEGWriter = None
    /\ include_prediction = FALSE
    /\ classifier = None
    /\ files = {}
    /\ printed = <<>>
    /\ exported = <<>>
    /\ calls = <<>>

\* no second Tracker is at work and no box is being measured
Alone ==
    /\ other_tracker = [pc |-> "idle", ids |-> <<>>]
    /\ rects = <<>>
    /\ measured = <<>>

Init ==
    /\ Constructed(Clips)
    /\ Track_track_id \in {1, 4}
    /\ Alone

\* variant: the id counter is not reset
extract_start_without_reset ==
    /\ pc = "constructed"
    /\ IF stats.mean_temp > MAX_MEAN_TEMPERATURE_THRESHOLD
          \/ stats.max_temp - stats.min_temp > MAX_TEMPERATURE_RANGE_THRESHOLD
       THEN pc' = "extracted"
       ELSE pc' = "frames"
    /\ active_tracks' = <<>>
    /\ UNCHANGED <<clip, stats, frame_number, new_regions, used_regions, objs,
                   track_history, tracks, max_tracks, Track_track_id>>
    /\ UNCHANGED outside_extract

\* the admission checks and the reset of the id counter at the head of extract
extract_start ==
    /\ pc = "constructed"
    /\ IF stats.mean_temp > MAX_MEAN_TEMPERATURE_THRESHOLD
          \/ stats.max_temp - stats.min_temp > MAX_TEMPERATURE_RANGE_THRESHOLD
       THEN /\ pc' = "extracted"
            /\ UNCHANGED Track_track_id
       ELSE /\ pc' = "frames"
            /\ Track_track_id' = 1
    /\ active_tracks' = <<>>
    /\ UNCHANGED <<clip, stats, frame_number, new_regions, used_regions, objs,
                   track_history, tracks, max_tracks>>
    /\ UNCHANGED outside_extract

\* variant: every region seeds a track
new_tracks_ignoring_used(regions, used, next_id, fn) ==
    [k \in 1..Len(regions) |->
        [Track(next_id + k - 1, regions[k].x, regions[k].y, regions[k].width,
               regions[k].height, regions[k].mass) EXCEPT !.first_frame = fn]]

\* step 3: the tracks created for the regions that are not in used
new_tracks(regions, used, next_id, fn) ==
    LET unmatched == SelectSeq([i \in 1..Len(regions) |-> i], LAMBDA i : i \notin Range(used))
    IN  [k \in 1..Len(unmatched) |->
            LET region == regions[unmatched[k]]
            IN  [Track(next_id + k - 1, region.x, region.y, region.width, region.height,
                       region.mass) EXCEPT !.first_frame = fn]]

\* variant: the records hold the track's box itself, so every record of a
\* track shows the box as sync_new_location last left it
record_history_sharing_box(hist, os, active, fn) ==
    [i \in 1..Len(os) |->
        LET h == IF i <= Len(hist) THEN hist[i] ELSE <<>>
            shared == [k \in 1..Len(h) |-> [h[k] EXCEPT !.bounds = os[i].bounds]]
        IN  IF i \in Range(active) THEN Append(shared, history_record(fn, os[i])) ELSE shared]

\* variant: a track gets its first record in the frame after its creation
record_history_after_creation(hist, os, active, fn) ==
    [i \in 1..Len(os) |->
        LET h == IF i <= Len(hist) THEN hist[i] ELSE <<>>
        IN  IF i \in Range(active) /\ os[i].first_frame # fn
            THEN Append(h, history_record(fn, os[i])) ELSE h]

\* step 5: a record is appended for every active track
record_history(hist, os, active, fn) ==
    [i \in 1..Len(os) |->
        LET h == IF i <= Len(hist) THEN hist[i] ELSE <<>>
        IN  IF i \in Range(active) THEN Append(h, history_record(fn, os[i])) ELSE h]

\* variant: lost tracks stay in the active set
still_active_keeps_lost(os, active) == active

\* the filter after step 3
still_active(os, active) == SelectSeq(active, LAMBDA i : os[i].status # TARGET_LOST)

\* variant: a region one track has returned is not offered to the tracks
\* processed after it
RECURSIVE associate_claiming_regions(_, _, _)
associate_claiming_regions(st, order, regions) ==
    IF order = <<>> THEN st
    ELSE LET i == Head(order)
             offered == SelectSeq([r \in 1..Len(regions) |-> r],
                                  LAMBDA r : r \notin Range(st.used))
             left_over == [k \in 1..Len(offered) |-> regions[offered[k]]]
             returned == overlapping_regions(st.objs[i], left_over)
         IN  associate_claiming_regions(
                [objs |-> [st.objs EXCEPT ![i] = sync_new_location(@, left_over)],
                 used |-> st.used \o [k \in 1..Len(returned) |-> offered[returned[k]]]],
                Tail(order), regions)

\* step 2: the tracks listed in order are synced one after the other, each
\* with the whole region list; st holds the objects and used_regions so far
RECURSIVE associate(_, _, _)
associate(st, order, regions) ==
    IF order = <<>> THEN st
    ELSE LET i == Head(order)
         IN  associate([objs |-> [st.objs EXCEPT ![i] = sync_new_location(@, regions)],
                        used |-> st.used \o overlapping_regions(st.objs[i], regions)],
                       Tail(order), regions)

\* one iteration of the frame loop of extract
extract_frame ==
    /\ pc = "frames"
    /\ frame_number < clip.n
    /\ \E components \in Frames(clip, frame_number) :
         LET regions == _get_regions_of_interest(components)
             step2   == associate([objs |-> objs, used |-> <<>>], active_tracks, regions)
             synced  == step2.objs
             used    == step2.used
             created == new_tracks(regions, used, Track_track_id, frame_number)
             os      == synced \o created
             active  == still_active(os, active_tracks
                            \o [k \in 1..Len(created) |-> Len(objs) + k])
         IN  /\ new_regions' = regions
             /\ used_regions' = used
             /\ objs' = os
             /\ Track_track_id' = Track_track_id + Len(created)
             /\ active_tracks' = active
             /\ track_history' = record_history(track_history, os, active, frame_number)
    /\ frame_number' = frame_number + 1
    /\ UNCHANGED <<clip, stats, pc, tracks, max_tracks>>
    /\ UNCHANGED outside_extract

\* movement: sum of the recorded speeds, in 1 / VScale pixels
\* variant: the horizontal speed alone is summed
movement_of_x_only(history) ==
    SumSeq([k \in 1..Len(history) |-> Abs(history[k].v[1])])

movement_of(history) ==
    SumSeq([k \in 1..Len(history) |->
               ISqrt(history[k].v[1] * history[k].v[1] + history[k].v[2] * history[k].v[2])])

\* max_offset: largest recorded offset, in 1 / VScale pixels (d is in half pixels)
max_offset_of(history) ==
    MaxSeq([k \in 1..Len(history) |->
               ISqrt((history[k].d[1] * history[k].d[1] + history[k].d[2] * history[k].d[2])
                     * ((VScale \div 2) * (VScale \div 2)))])

\* variant: a track of exactly 27 records is discarded as well
too_short_inclusive(track_length) == track_length <= FramesPerSecond * MinSeconds

\* track_length < 9 * 3
too_short(track_length) == track_length < FramesPerSecond * MinSeconds

\* track.max_offset < 4.0
too_still(max_offset) == max_offset < MinOffset * VScale

\* variant: the score is the movement alone
score_of_movement_only(movement, max_offset) == movement

\* track.score = track.movement + track.max_offset
score_of(movement, max_offset) == movement + max_offset

\* variant: the record of the first frame is left out
mass_history_of_later_frames(history) == [k \in 1..(Len(history) - 1) |-> history[k + 1].mass]

\* track.mass_history: int(mass) of every record
mass_history_of(history) == [k \in 1..Len(history) |-> history[k].mass]

\* the statistics loop of get_tracks_statistics over the tracks in todo
RECURSIVE statistics_loop(_, _, _, _)
statistics_loop(os, hist, todo, track_scores) ==
    IF todo = <<>> THEN [objs |-> os, track_scores |-> track_scores, raised |-> FALSE]
    ELSE LET i == Head(todo)
             history == hist[i]
         IN  IF history = <<>>
             THEN \* max() of an empty sequence raises ValueError
                  [objs |-> [os EXCEPT ![i].movement = 0],
                   track_scores |-> track_scores, raised |-> TRUE]
             ELSE LET movement == movement_of(history)
                      max_offset == max_offset_of(history)
                      t == [os[i] EXCEPT
                               !.movement = movement,
                               !.max_offset = max_offset,
                               !.score = score_of(movement, max_offset),
                               !.mass_history = mass_history_of(history)]
                      keep == ~too_short(Len(history)) /\ ~too_still(max_offset)
                  IN  statistics_loop([os EXCEPT ![i] = t], hist, Tail(todo),
                                      IF keep THEN Append(track_scores, <<t.score, i>>)
                                      ELSE track_scores)

\* list.sort(reverse = True) of (score, track) tuples raises TypeError when it
\* has to order two tuples of equal score (Track defines no ordering)
sort_raises(track_scores) ==
    \E a, b \in 1..Len(track_scores) : a # b /\ track_scores[a][1] = track_scores[b][1]

\* variant: the tuples are left in ascending order
RECURSIVE sort_ascending(_)
sort_ascending(track_scores) ==
    IF track_scores = <<>> THEN <<>>
    ELSE LET a == CHOOSE a \in 1..Len(track_scores) :
                     \A b \in 1..Len(track_scores) : track_scores[a][1] <= track_scores[b][1]
         IN  <<track_scores[a]>>
             \o sort_ascending(SelectSeq(track_scores, LAMBDA e : e # track_scores[a]))

\* the tuples from the highest score down (scores are pairwise different)
RECURSIVE sort_reverse(_)
sort_reverse(track_scores) ==
    IF track_scores = <<>> THEN <<>>
    ELSE LET a == CHOOSE a \in 1..Len(track_scores) :
                     \A b \in 1..Len(track_scores) : track_scores[a][1] >= track_scores[b][1]
         IN  <<track_scores[a]>>
             \o sort_reverse(SelectSeq(track_scores, LAMBDA e : e # track_scores[a]))

\* get_tracks_statistics on the track list ts: the objects and the track list
\* it leaves, and whether it raised
get_tracks_statistics(os, hist, ts) ==
    LET looped == statistics_loop(os, hist, ts, <<>>)
    IN  IF looped.raised \/ sort_raises(looped.track_scores)
        THEN [objs |-> looped.objs, tracks |-> ts, raised |-> TRUE]
        ELSE LET sorted == sort_reverse(looped.track_scores)
             IN  [objs |-> looped.objs,
                  tracks |-> [k \in 1..Len(sorted) |-> sorted[k][2]],
                  raised |-> FALSE]

\* the end of extract: self.tracks = self.track_history.keys(), then the statistics
extract_finish ==
    /\ pc = "frames"
    /\ frame_number = clip.n
    /\ LET keys == [i \in 1..Len(objs) |-> i]
           done == get_tracks_statistics(objs, track_history, keys)
       IN  /\ objs' = done.objs
           /\ tracks' = done.tracks
           /\ pc' = IF done.raised THEN "raised" ELSE "extracted"
    /\ UNCHANGED <<clip, stats, frame_number, new_regions, used_regions, active_tracks,
                   track_history, Track_track_id, max_tracks>>
    /\ UNCHANGED outside_extract

\* the caller sets Tracker.max_tracks
set_max_tracks ==
    /\ pc = "extracted"
    /\ max_tracks = None
    /\ max_tracks' \in 0..MaxMaxTracks
    /\ UNCHANGED <<clip, stats, pc, frame_number, new_regions, used_regions, active_tracks,
                   objs, track_history, tracks, Track_track_id>>
    /\ UNCHANGED outside_extract

\* self.tracks[:self.max_tracks] when max_tracks is set
kept_tracks(ts, mt) == IF mt # None THEN SubSeq(ts, 1, Min(mt, Len(ts))) ELSE ts

filter_tracks ==
    /\ pc \in {"extracted", "filtered"}
    /\ tracks' = kept_tracks(tracks, max_tracks)
    /\ pc' = "filtered"
    /\ UNCHANGED <<clip, stats, frame_number, new_regions, used_regions, active_tracks,
                   objs, track_history, Track_track_id, max_tracks>>
    /\ UNCHANGED outside_extract

(***************************************************************************)
(* Tracker.export and Tracker.display                                      *)
(***************************************************************************)
\* the caller assigns a writer class to Tracker.MPEGWriter
set_MPEGWriter ==
    /\ pc \in {"extracted", "raised", "filtered"}
    /\ MPEGWriter = None
    /\ MPEGWriter' = FFMpegWriter
    /\ UNCHANGED <<extract_vars, include_prediction, classifier, files, printed, exported,
                   calls, other_tracker, geometry_vars>>

\* the caller switches Tracker.include_prediction on
set_include_prediction ==
    /\ pc \in {"extracted", "raised", "filtered"}
    /\ ~include_prediction
    /\ include_prediction' = TRUE
    /\ UNCHANGED <<extract_vars, MPEGWriter, classifier, files, printed, exported,
                   calls, other_tracker, geometry_vars>>

\* the caller stores a confidence in Tracker.stats (nothing in Tracker does)
set_confidence ==
    /\ pc \in {"extracted", "raised", "filtered"}
    /\ "confidence" \notin DOMAIN stats
    /\ stats' = [k \in DOMAIN stats \cup {"confidence"} |->
                    IF k = "confidence" THEN 0 ELSE stats[k]]
    /\ UNCHANGED <<clip, pc, frame_number, new_regions, used_regions, active_tracks, objs,
                   track_history, tracks, Track_track_id, max_tracks>>
    /\ UNCHANGED outside_extract

\* variant: export does not look at the writer before it starts
export_refuses_nothing(include_track_previews, writer) == FALSE

\* the check at the head of export
export_refuses(include_track_previews, writer) == include_track_previews /\ writer = None

\* the export of the tracks in todo, numbered from counter, under the options
\* opt; st holds the objects, the files and the printed lines so far
RECURSIVE export_loop(_, _, _, _, _)
export_loop(st, hist, todo, counter, opt) ==
    IF todo = <<>> \/ st.raised # "no" THEN st
    ELSE LET i == Head(todo)
             history == hist[i]
         IN  IF opt.previews /\ opt.writer = None
             THEN \* _init_video raises
                  [st EXCEPT !.raised = "Exception"]
             ELSE LET window_frames == [k \in 1..Len(history) |-> history[k].frame_number]
                      t == [st.objs[i] EXCEPT
                               !.bounds_history =
                                   @ \o [k \in 1..Len(history) |-> copy(history[k].bounds)],
                               !.prediction_history =
                                   IF opt.predict
                                   THEN @ \o [k \in 1..Len(history) |-> "prediction"]
                                   ELSE @]
                      st1 == [st EXCEPT
                                 !.objs[i] = t,
                                 !.files = IF opt.previews THEN @ \cup {<<"mp4", counter>>}
                                           ELSE @,
                                 !.exported = Append(@, [track |-> i,
                                                         window_frames |-> window_frames])]
                  IN  IF ~opt.confidence
                      THEN \* self.stats['confidence'] raises
                           [st1 EXCEPT !.raised = "KeyError"]
                      ELSE export_loop(
                              [st1 EXCEPT
                                  !.printed =
                                      IF Len(t.mass_history) # Len(window_frames)
                                      THEN Append(@, <<"mass history mismatch",
                                                       Len(t.mass_history), Len(window_frames)>>)
                                      ELSE @,
                                  !.files = @ \cup {<<"trk", counter>>, <<"txt", counter>>}],
                              hist, Tail(todo), counter + 1, opt)

\* Tracker.export(filename, include_track_previews = ...)
export ==
    /\ pc \in {"extracted", "raised", "filtered"}
    /\ Len(calls) < MaxCalls
    /\ \E include_track_previews \in BOOLEAN :
         IF export_refuses(include_track_previews, MPEGWriter)
         THEN /\ calls' = Append(calls, [op |-> "export", previews |-> include_track_previews,
                                         raised |-> "Exception"])
              /\ UNCHANGED <<pc, tracks, objs, classifier, files, printed, exported>>
         ELSE LET ts   == kept_tracks(tracks, max_tracks)
                  done == export_loop([objs |-> objs, files |-> files, printed |-> printed,
                                       exported |-> <<>>, raised |-> "no"],
                                      track_history, ts, 1,
                                      [previews |-> include_track_previews,
                                       writer |-> MPEGWriter,
                                       predict |-> include_prediction,
                                       confidence |-> "confidence" \in DOMAIN stats])
              IN  /\ classifier' = IF include_prediction /\ classifier = None
                                   THEN Classifier ELSE classifier
                  /\ tracks' = ts
                  /\ pc' = IF pc = "extracted" THEN "filtered" ELSE pc
                  /\ objs' = done.objs
                  /\ files' = done.files
                  /\ printed' = done.printed
                  /\ exported' = done.exported
                  /\ calls' = Append(calls, [op |-> "export",
                                             previews |-> include_track_previews,
                                             raised |-> done.raised])
    /\ UNCHANGED <<clip, stats, frame_number, new_regions, used_regions, active_tracks,
                   track_history, Track_track_id, max_tracks>>
    /\ UNCHANGED <<MPEGWriter, include_prediction, other_tracker, geometry_vars>>

\* the check at the head of display
display_refuses(writer) == writer = None

\* the frame offsets at which display draws track t in a clip of n frames
shown(t, n) ==
    {f - t.first_frame : f \in 0..(n - 1)} \cap 1..(Len(t.bounds_history) - 2)

\* how display ends once it has opened its video file
display_raises ==
    IF include_prediction /\ classifier = None
            /\ \E k \in 1..Len(tracks) : shown(objs[tracks[k]], frame_number) # {}
         THEN "AttributeError"                       \* self.classifier.classes
    ELSE IF include_prediction
            /\ \E k \in 1..Len(tracks) :
                  \E o \in shown(objs[tracks[k]], frame_number) :
                     o >= Len(objs[tracks[k]].prediction_history)
         THEN "IndexError"
    ELSE "no"

\* Tracker.display(filename)
display ==
    /\ pc \in {"extracted", "raised", "filtered"}
    /\ Len(calls) < MaxCalls
    /\ IF display_refuses(MPEGWriter)
       THEN /\ calls' = Append(calls, [op |-> "display", previews |-> FALSE,
                                       raised |-> "Exception"])
            /\ UNCHANGED files
       ELSE /\ calls' = Append(calls, [op |-> "display", previews |-> FALSE,
                                       raised |-> display_raises])
            /\ files' = files \cup {<<"display", 0>>}
    /\ UNCHANGED <<extract_vars, MPEGWriter, include_prediction, classifier, printed,
                   exported, other_tracker, geometry_vars>>

Next ==
    \/ extract_start
    \/ extract_frame
    \/ extract_finish
    \/ set_max_tracks
    \/ filter_tracks

Spec == Init /\ [][Next]_vars

(***************************************************************************)
(* A Tracker whose caller, after extract, goes on to export and display    *)
(* the tracks                                                              *)
(***************************************************************************)
\* clips of one or two blobs, of which some outlast the filter
ExportClips ==
    {c \in Clips : /\ c.kind = "script"
                   /\ c.blobs[1].from = 0
                   /\ c.blobs[1].moves = 3
                   /\ c.blobs[1].sx + c.blobs[1].sy = 1
                   /\ c.blobs[1].life \in {26, 28}}

InitExport ==
    /\ Constructed(ExportClips)
    /\ Track_track_id = 1
    /\ Alone

NextExport ==
    \/ Next
    \/ set_MPEGWriter
    \/ set_include_prediction
    \/ set_confidence
    \/ export
    \/ display

SpecExport == InitExport /\ [][NextExport]_vars

(***************************************************************************)
(* The end-to-end scenarios: extraction of clips given frame by frame      *)
(***************************************************************************)
\* two 4 x 4 blobs, gap pixels apart, seen apart for two frames, then as one
\* 8 x 4 component for `during` frames, then apart again for two frames
MergeClip(gap, during) ==
    LET apart == <<Component(40, 40, 4, 4, 16), Component(40 + gap, 40, 4, 4, 16)>>
        one   == <<Component(40, 40, 8, 4, 32)>>
    IN  Listed([f \in 1..(during + 4) |->
                   IF f <= 2 \/ f > during + 2 THEN apart ELSE one],
               2..(during + 1))

MergeClips == { MergeClip(gap, during) : gap \in {26, 30, 40}, during \in {2, 3} }

ScenarioClips == SteadyClips \cup MergeClips

InitScenarios ==
    /\ Constructed(ScenarioClips)
    /\ Track_track_id \in {1, 4}
    /\ Alone

SpecScenarios == InitScenarios /\ [][Next]_vars

(***************************************************************************)
(* Two Trackers of one process, their extraction passes interleaved.  Of   *)
(* the second Tracker only what it shares with the first is kept: the      *)
(* class attribute Track._track_id, and the ids its own tracks were given. *)
(***************************************************************************)
InitInterleaved ==
    /\ Constructed({c \in Clips : c.kind = "free" /\ c.temp.mean10 = 35000
                                  /\ c.temp.max = 3700})
    /\ Track_track_id \in {1, 4}
    /\ Alone

\* the second Tracker passes the admission checks: Track._track_id = 1
other_extract_start ==
    /\ other_tracker.pc = "idle"
    /\ other_tracker' = [other_tracker EXCEPT !.pc = "frames"]
    /\ Track_track_id' = 1
    /\ UNCHANGED <<clip, stats, pc, frame_number, new_regions, used_regions, active_tracks,
                   objs, track_history, tracks, max_tracks>>
    /\ UNCHANGED <<export_vars, geometry_vars>>

\* the second Tracker constructs a Track: self.id = Track._track_id, then
\* Track._track_id += 1
other_new_track ==
    /\ other_tracker.pc = "frames"
    /\ Len(other_tracker.ids) < MaxOtherTracks
    /\ other_tracker' = [other_tracker EXCEPT !.ids = Append(@, Track_track_id)]
    /\ Track_track_id' = Track_track_id + 1
    /\ UNCHANGED <<clip, stats, pc, frame_number, new_regions, used_regions, active_tracks,
                   objs, track_history, tracks, max_tracks>>
    /\ UNCHANGED <<export_vars, geometry_vars>>

\* the second Tracker's frame loop ends
other_extract_finish ==
    /\ other_tracker.pc = "frames"
    /\ other_tracker' = [other_tracker EXCEPT !.pc = "extracted"]
    /\ UNCHANGED <<extract_vars, export_vars, geometry_vars>>

NextInterleaved ==
    \/ Next
    \/ other_extract_start
    \/ other_new_track
    \/ other_extract_finish

SpecInterleaved == InitInterleaved /\ [][NextInterleaved]_vars

(***************************************************************************)
(* TrackingFrame.overlap_area and TrackingFrame.area on their own          *)
(***************************************************************************)
\* the boxes measured: any corner (a predicted box may start left of or
\* above the frame), sides from empty up to MaxSide
Boxes ==
    { TrackingFrame(x, y, w, h, 0) :
        x \in (-1)..MaxCoord, y \in (-1)..MaxCoord, w \in 0..MaxSide, h \in 0..MaxSide }

InitOverlap ==
    /\ Constructed({c \in Clips : c.kind = "free" /\ c.n = 1 /\ c.temp.mean10 = 35000
                                  /\ c.temp.max = 3700})
    /\ Track_track_id = 1
    /\ other_tracker = [pc |-> "idle", ids |-> <<>>]
    /\ rects \in Boxes \X Boxes
    /\ measured = <<>>

\* A.overlap_area(B), B.overlap_area(A), A.overlap_area(A) and A.area
measure_overlap ==
    /\ rects # <<>>
    /\ measured = <<>>
    /\ measured' = << [ab |-> overlap_area(rects[1], rects[2]),
                       ba |-> overlap_area(rects[2], rects[1]),
                       aa |-> overlap_area(rects[1], rects[1]),
                       area |-> area(rects[1])] >>
    /\ UNCHANGED <<extract_vars, export_vars, other_tracker, rects>>

NextOverlap == measure_overlap

SpecOverlap == InitOverlap /\ [][NextOverlap]_vars

(***************************************************************************)
(* ClipClassifier.fit_to_screen on its own (src/classify/clipclassifier.py)*)
(* A Region is a rectangle with the members and edges of a TrackingFrame.  *)
(* The caller passes whole and half pixels, which floats hold exactly.     *)
(***************************************************************************)
\* variant: the right edge is aligned without allowing for the width
fit_to_screen_to_right_edge(rect, screen_bounds) ==
    LET r1 == IF left(rect) < left(screen_bounds)
              THEN [rect EXCEPT !.x = left(screen_bounds)] ELSE rect
        r2 == IF top(r1) < top(screen_bounds)
              THEN [r1 EXCEPT !.y = top(screen_bounds)] ELSE r1
        r3 == IF right(r2) > right(screen_bounds)
              THEN [r2 EXCEPT !.x = right(screen_bounds)] ELSE r2
    IN  IF bottom(r3) > bottom(screen_bounds)
        THEN [r3 EXCEPT !.y = bottom(screen_bounds) - r3.height] ELSE r3

\* rect as fit_to_screen leaves it
fit_to_screen(rect, screen_bounds) ==
    LET r1 == IF left(rect) < left(screen_bounds)
              THEN [rect EXCEPT !.x = left(screen_bounds)] ELSE rect
        r2 == IF top(r1) < top(screen_bounds)
              THEN [r1 EXCEPT !.y = top(screen_bounds)] ELSE r1
        r3 == IF right(r2) > right(screen_bounds)
              THEN [r2 EXCEPT !.x = right(screen_bounds) - r2.width] ELSE r2
    IN  IF bottom(r3) > bottom(screen_bounds)
        THEN [r3 EXCEPT !.y = bottom(screen_bounds) - r3.height] ELSE r3

\* the rects fitted: placed in and around the screens, empty ones included
Rects ==
    { TrackingFrame(x, y, w, h, 0) :
        x \in (-1)..(MaxCoord + 1), y \in (-1)..(MaxCoord + 1),
        w \in 0..MaxSide, h \in 0..MaxSide }

Screens ==
    { TrackingFrame(x, y, w, h, 0) : x \in 0..1, y \in 0..1, w \in 1..MaxSide, h \in 1..MaxSide }

InitFit ==
    /\ Constructed({c \in Clips : c.kind = "free" /\ c.n = 1 /\ c.temp.mean10 = 35000
                                  /\ c.temp.max = 3700})
    /\ Track_track_id = 1
    /\ other_tracker = [pc |-> "idle", ids |-> <<>>]
    /\ rects \in Rects \X Screens
    /\ measured = <<>>

\* self.fit_to_screen(rect, screen_bounds)
fit ==
    /\ rects # <<>>
    /\ measured = <<>>
    /\ measured' = << fit_to_screen(rects[1], rects[2]) >>
    /\ UNCHANGED <<extract_vars, export_vars, other_tracker, rects>>

NextFit == fit

SpecFit == InitFit /\ [][NextFit]_vars

(***************************************************************************)
(* Properties                                                              *)
(***************************************************************************)
\* a step of the model that processes one frame
FrameStep == pc = "frames" /\ frame_number' = frame_number + 1

\* the box a track is expected at: the current box moved by the velocity, the
\* resulting position cut to whole pixels
ExpectedBox(t) ==
    [x |-> TruncDiv(t.bounds.x * VScale + t.vx, VScale),
     y |-> TruncDiv(t.bounds.y * VScale + t.vy, VScale),
     width |-> t.bounds.width, height |-> t.bounds.height, mass |-> 0]

\* 2 * overlap_area(predicted, region) / (predicted.area + region.area) > 0.10
IsConsumed(t, region) ==
    LET p == ExpectedBox(t)
    IN  10 * 2 * overlap_area(p, region) > 1 * (area(p) + area(region))

\* and |region.area - predicted.area| / predicted.area < 0.5
IsSimilar(t, region) ==
    LET p == ExpectedBox(t)
    IN  IsConsumed(t, region) /\ 10 * Abs(area(region) - area(p)) < 5 * area(p)

SimilarIn(t, regions) == {r \in 1..Len(regions) : IsSimilar(t, regions[r])}

ConsumedIn(t, regions) == {r \in 1..Len(regions) : IsConsumed(t, regions[r])}

StatusFor(n) == IF n = 0 THEN "lost" ELSE IF n >= 2 THEN "split" ELSE "acquired"

\* C1: after sync_new_location the status of a track is LOST with no similar
\* region among the candidates (an empty candidate list included), SPLIT with
\* two or more, ACQUIRED with exactly one, and never NONE.
C1_StatusBySimilarCount ==
    [][FrameStep =>
         \A i \in Range(active_tracks) :
            /\ objs'[i].status = StatusFor(Cardinality(SimilarIn(objs[i], new_regions')))
            /\ objs'[i].status # "none"]_vars

\* C1 witness: one frame left a track SPLIT and another LOST
C1_Witness ==
    /\ pc = "frames"
    /\ \E i, j \in 1..Len(objs) :
          /\ objs[i].status = "split"
          /\ objs[j].status = "lost"
          /\ Len(new_regions) = 2

\* the indices of s listed in increasing order
RECURSIVE Ascending(_)
Ascending(S) ==
    IF S = {} THEN <<>>
    ELSE LET m == CHOOSE m \in S : \A o \in S : m <= o IN <<m>> \o Ascending(S \ {m})

\* C2: a candidate region is returned as consumed iff its overlap fraction
\* with the predicted box exceeds 0.10, it is similar iff in addition the
\* relative area difference is below 0.5; so every similar region is returned
\* and the returned regions do not depend on the status the track ends in.
C2_ConsumedIffOverlapping ==
    [][FrameStep =>
         /\ used_regions' =
               Flatten([k \in 1..Len(active_tracks) |->
                           Ascending(ConsumedIn(objs[active_tracks[k]], new_regions'))])
         /\ \A i \in Range(active_tracks) :
               /\ SimilarIn(objs[i], new_regions') \subseteq Range(used_regions')
               /\ objs'[i].status =
                     StatusFor(Cardinality(SimilarIn(objs[i], new_regions')))]_vars

\* C2 witness: a frame in which the only track went LOST and still returned a
\* region (overlapping, not similar)
C2_Witness ==
    /\ pc = "frames"
    /\ Len(objs) = 1
    /\ objs[1].status = "lost"
    /\ used_regions = <<1>>

\* C3: with exactly one similar region the track's box and mass become those
\* of that region.
C3_AdoptsRegion ==
    [][FrameStep =>
         \A i \in Range(active_tracks) :
            \A r \in 1..Len(new_regions') :
               SimilarIn(objs[i], new_regions') = {r} =>
                  /\ objs'[i].bounds.x = new_regions'[r].x
                  /\ objs'[i].bounds.y = new_regions'[r].y
                  /\ objs'[i].bounds.width = new_regions'[r].width
                  /\ objs'[i].bounds.height = new_regions'[r].height
                  /\ objs'[i].mass = new_regions'[r].mass]_vars

\* C3 witness: an ACQUIRED track that took a wider and heavier region than the
\* one it was created on
C3_Witness ==
    \E i \in 1..Len(objs) :
       /\ objs[i].status = "acquired"
       /\ track_history[i] # <<>>
       /\ track_history[i][1].bounds.width = 25
       /\ track_history[i][1].mass = 1
       /\ objs[i].bounds.width = 26
       /\ objs[i].mass = 2

\* the regions of the frame no active track returned as consumed
Unconsumed(os, active, regions) ==
    Ascending({r \in 1..Len(regions) : \A i \in Range(active) : ~IsConsumed(os[i], regions[r])})

\* C4: in every frame each region no active track returned as consumed seeds
\* exactly one new track, anchored at the region, with first_frame the frame
\* index; a region some track consumed (be it LOST or SPLIT) seeds none.
C4_UnconsumedRegionsSeedTracks ==
    [][FrameStep =>
         LET seeds == Unconsumed(objs, active_tracks, new_regions')
         IN  /\ Len(objs') = Len(objs) + Len(seeds)
             /\ \A k \in 1..Len(seeds) :
                   LET t == objs'[Len(objs) + k]
                       region == new_regions'[seeds[k]]
                   IN  /\ t.bounds.x = region.x
                       /\ t.bounds.y = region.y
                       /\ t.bounds.width = region.width
                       /\ t.bounds.height = region.height
                       /\ t.mass = region.mass
                       /\ t.first_frame = frame_number
                       /\ t.status = "none"
                       /\ Len(objs) + k \in Range(active_tracks')]_vars

\* C4 witness: of two regions one was consumed by a track that went LOST, and
\* only the other seeded a track
C4_Witness ==
    /\ pc = "frames"
    /\ Len(new_regions) = 2
    /\ Range(used_regions) = {1}
    /\ \A i \in 1..Len(objs) : objs[i].status \in {"lost", "none"}
    /\ Cardinality({i \in 1..Len(objs) : objs[i].first_frame = frame_number - 1}) = 1
    /\ \E i \in 1..Len(objs) : objs[i].status = "lost"

\* C5: a track that becomes LOST in frame N leaves the active set in frame N
\* and gets no record for N or later; it is not synchronised again (it is never
\* active), it stays LOST, and its earlier records are kept unchanged.
C5_LostIsRetired ==
    [][/\ \A i \in 1..Len(objs') :
             objs'[i].status = "lost" =>
                /\ i \notin Range(active_tracks')
                /\ i <= Len(objs)
                /\ track_history'[i] = track_history[i]
                /\ (objs[i].status # "lost" =>
                      /\ FrameStep
                      /\ \A k \in 1..Len(track_history'[i]) :
                            track_history'[i][k].frame_number < frame_number)
                /\ (objs[i].status = "lost" =>
                      /\ objs'[i].bounds = objs[i].bounds
                      /\ objs'[i].vx = objs[i].vx
                      /\ objs'[i].vy = objs[i].vy)
       /\ \A j \in 1..Len(objs) : objs[j].status = "lost" => objs'[j].status = "lost"]_vars

\* C5 witness: a track with records went LOST and two further frames were
\* processed without it
C5_Witness ==
    \E i \in 1..Len(objs) :
       /\ objs[i].status = "lost"
       /\ Len(track_history[i]) >= 1
       /\ frame_number >= track_history[i][Len(track_history[i])].frame_number + 3
       /\ active_tracks # <<>>

\* C6: the frame indices of a track's records are first_frame, first_frame + 1,
\* ... without gap or repeat; a living track has one record per frame since
\* first_frame, a track that went LOST in frame N has N - first_frame records.
C6_HistoryContiguous ==
    [][\A i \in 1..Len(objs') :
          LET h == track_history'[i]
              t == objs'[i]
          IN  /\ \A k \in 1..Len(h) : h[k].frame_number = t.first_frame + k - 1
              /\ t.status # "lost" => Len(h) = frame_number' - t.first_frame
              /\ (t.status = "lost" /\ i <= Len(objs) /\ objs[i].status # "lost")
                    => Len(h) = frame_number - t.first_frame
              /\ (i <= Len(objs) /\ objs[i].status = "lost")
                    => Len(h) = Len(track_history[i])]_vars

\* C6 witness: a track created after the first frame, with several records,
\* that went LOST before the end of the clip
C6_Witness ==
    \E i \in 1..Len(objs) :
       /\ objs[i].first_frame >= 1
       /\ objs[i].status = "lost"
       /\ Len(track_history[i]) >= 2

\* the clip passed the admission checks of extract and the pass has begun
Admitted == pc \in {"frames", "extracted", "raised", "filtered"} /\ frame_number >= 1

\* C7: within one extraction pass the k-th track created has id k, so the ids
\* are pairwise distinct and increase in creation order.
C7_IdsCountFromOne ==
    /\ \A k \in 1..Len(objs) : objs[k].id = k
    /\ \A j, k \in 1..Len(objs) : j < k => objs[j].id < objs[k].id
    /\ Admitted => Track_track_id = Len(objs) + 1

\* C7 witness: three tracks were created in more than one frame
C7_Witness ==
    /\ Len(objs) >= 3
    /\ objs[1].first_frame < objs[3].first_frame
    /\ objs[3].id = 3

\* C8 (as claimed): a clip whose mean temperature exceeds 3800, or whose
\* temperature range exceeds 2000, is skipped by extract: it returns normally,
\* no frame is processed, no Track is created, and the track list and the track
\* history stay empty.
C8_HotClipIsSkipped ==
    (\/ clip.temp.mean10 > 3800 * 10
     \/ clip.temp.max - clip.temp.min > 2000)
    => /\ pc # "raised"
       /\ frame_number = 0
       /\ objs = <<>>
       /\ tracks = <<>>
       /\ track_history = <<>>

\* the largest squared offset recorded, in squared half pixels
MaxOffsetSq(history) ==
    MaxSeq([k \in 1..Len(history) |->
               history[k].d[1] * history[k].d[1] + history[k].d[2] * history[k].d[2]])

\* at least 27 records and a max_offset of at least 4.0 pixels (8 half pixels)
PassesFilter(history) == Len(history) >= 27 /\ MaxOffsetSq(history) >= 8 * 8

\* C9: when get_tracks_statistics has returned, a track is in the track list
\* iff its history has at least 27 records and its max_offset is at least 4.0;
\* a track of exactly 27 records is retained, a track of 2 records is not.
C9_FilterThresholds ==
    pc = "extracted" =>
       /\ \A i \in 1..Len(objs) : i \in Range(tracks) <=> PassesFilter(track_history[i])
       /\ \A j, k \in 1..Len(tracks) : j # k => tracks[j] # tracks[k]
       /\ \A i \in 1..Len(objs) :
             /\ (Len(track_history[i]) = 27 /\ objs[i].max_offset >= 4 * VScale)
                   => i \in Range(tracks)
             /\ Len(track_history[i]) = 2 => i \notin Range(tracks)

\* C9 witness: a track of exactly 27 records was retained, one of 2 records and
\* one of 26 records that moved far enough were removed
C9_Witness ==
    /\ pc = "extracted"
    /\ \E i, j \in 1..Len(objs) :
          /\ Len(track_history[i]) = 27 /\ i \in Range(tracks)
          /\ Len(track_history[j]) = 2 /\ j \notin Range(tracks)

\* C10: when get_tracks_statistics has returned, every track's score is >= the
\* score of the track after it, and filter_tracks with max_tracks set keeps
\* exactly the first max_tracks tracks of that order (all of them when there
\* are fewer).
C10_RankedAndTruncated ==
    [][/\ pc' \in {"extracted", "filtered"} =>
             \A k \in 1..(Len(tracks') - 1) :
                objs'[tracks'[k]].score >= objs'[tracks'[k + 1]].score
       /\ (pc \in {"extracted", "filtered"} /\ pc' = "filtered" /\ max_tracks # None) =>
             /\ Len(tracks') = Min(max_tracks, Len(tracks))
             /\ \A k \in 1..Len(tracks') : tracks'[k] = tracks[k]]_vars

\* C10 witness: two tracks were ranked and max_tracks = 1 kept the first
C10_Witness ==
    /\ pc = "filtered"
    /\ max_tracks = 1
    /\ Len(tracks) = 1
    /\ \E i \in 1..Len(objs) :
          /\ i \notin Range(tracks)
          /\ PassesFilter(track_history[i])
          /\ objs[i].score < objs[tracks[1]].score

\* the largest squared distance between a recorded box centre and the origin,
\* both axes taken into account, in squared half pixels
CentreOffsetSq(t, history) ==
    MaxSeq([k \in 1..Len(history) |->
               (mid_x2(history[k].bounds) - t.origin[1]) * (mid_x2(history[k].bounds) - t.origin[1])
               + (mid_y2(history[k].bounds) - t.origin[2])
                 * (mid_y2(history[k].bounds) - t.origin[2])])

\* C11 (as claimed): max_offset is the largest Euclidean distance, over the
\* records of the track, between the box centre and the origin, horizontal and
\* vertical displacement both counted.
C11_MaxOffsetIsEuclidean ==
    pc \in {"extracted", "raised"} =>
       \A i \in 1..Len(objs) :
          track_history[i] # <<>> =>
             objs[i].max_offset
                = ISqrt(CentreOffsetSq(objs[i], track_history[i])
                        * ((VScale \div 2) * (VScale \div 2)))

\* the sum of the recorded speeds of a history, in 1 / VScale pixels
SpeedSum(history) ==
    SumSeq([k \in 1..Len(history) |->
               ISqrt(history[k].v[1] * history[k].v[1] + history[k].v[2] * history[k].v[2])])

\* C12: a track's score is its movement (the sum of the recorded speeds) plus
\* its max_offset, so of two tracks the one with at least the movement and at
\* least the max_offset of the other has at least its score.
C12_ScoreIsMovementPlusOffset ==
    pc \in {"extracted", "raised"} =>
       /\ \A i \in 1..Len(objs) :
             /\ objs[i].movement = SpeedSum(track_history[i])
             /\ objs[i].score = objs[i].movement + objs[i].max_offset
       /\ \A i, j \in 1..Len(objs) :
             (objs[i].movement >= objs[j].movement /\ objs[i].max_offset >= objs[j].max_offset)
                => objs[i].score >= objs[j].score

\* C12 witness: two tracks of different movement, the one that moved more
\* and went further scoring higher
C12_Witness ==
    /\ pc = "extracted"
    /\ \E i, j \in 1..Len(objs) :
          /\ objs[i].movement > objs[j].movement
          /\ objs[j].movement > 0
          /\ objs[i].max_offset > objs[j].max_offset
          /\ objs[j].max_offset > 0
          /\ objs[i].score > objs[j].score

(***************************************************************************)
(* overlap_area                                                            *)
(***************************************************************************)
\* C13: for all boxes A and B, A.overlap_area(B) = B.overlap_area(A)
C13_OverlapSymmetric ==
    measured # <<>> => measured[1].ab = measured[1].ba

\* two different boxes of different area were measured and they overlap
C13_Witness ==
    /\ measured # <<>>
    /\ measured[1].ab > 0
    /\ rects[1].x < rects[2].x
    /\ rects[1].width * rects[1].height # rects[2].width * rects[2].height

\* C14: for every box A, A.overlap_area(A) = A.area, the product of its sides
C14_SelfOverlapIsArea ==
    measured # <<>> =>
       /\ measured[1].aa = measured[1].area
       /\ measured[1].aa = rects[1].width * rects[1].height

\* a box that is not square and not empty was measured against itself
C14_Witness ==
    /\ measured # <<>>
    /\ measured[1].aa > 0
    /\ rects[1].width # rects[1].height

(***************************************************************************)
(* velocity                                                                *)
(***************************************************************************)
\* v1 is 0.9 * v0 + 0.1 * (centre displacement), to the nearest velocity unit;
\* v0, v1 in 1 / VScale pixels, the displacement moved2 in half pixels
IsBlend(v0, moved2, v1) ==
    Abs(10 * v1 - (9 * v0 + 1 * (moved2 * (VScale \div 2)))) <= 5

\* C15: when sync_new_location ends ACQUIRED the stored velocity becomes
\* 0.9 * old stored velocity + 0.1 * (new centre - old centre) on each axis;
\* a newly created track starts with stored velocity (0, 0).
C15_VelocityIsSmoothed ==
    [][FrameStep =>
         /\ \A i \in Range(active_tracks) :
               objs'[i].status = "acquired" =>
                  /\ IsBlend(objs[i].vx, mid_x2(objs'[i].bounds) - mid_x2(objs[i].bounds),
                             objs'[i].vx)
                  /\ IsBlend(objs[i].vy, mid_y2(objs'[i].bounds) - mid_y2(objs[i].bounds),
                             objs'[i].vy)
         /\ \A j \in (Len(objs) + 1)..Len(objs') :
               objs'[j].vx = 0 /\ objs'[j].vy = 0]_vars

\* C15 witness: an ACQUIRED track whose last step changed a velocity that was
\* not zero, the box having moved
C15_Witness ==
    /\ pc = "frames"
    /\ \E i \in Range(active_tracks) :
          LET h == track_history[i]
              n == Len(h)
          IN  /\ objs[i].status = "acquired"
              /\ n >= 3
              /\ h[n - 1].v[1] # 0
              /\ h[n].v[1] # h[n - 1].v[1]
              /\ h[n].bounds.x # h[n - 1].bounds.x
              /\ h[n].frame_number = frame_number - 1

(***************************************************************************)
(* SPLIT                                                                   *)
(***************************************************************************)
\* C16: when sync_new_location ends SPLIT (two or more similar regions) only
\* the status is set: box, mass, velocity and origin are left unchanged; no
\* track is created on any of the similar regions; the track stays in the
\* active set and receives a history record for that frame.
C16_SplitOnlyFlags ==
    [][FrameStep =>
         \A i \in Range(active_tracks) :
            Cardinality(SimilarIn(objs[i], new_regions')) >= 2 =>
               /\ objs'[i] = [objs[i] EXCEPT !.status = "split"]
               /\ objs'[i].bounds = objs[i].bounds
               /\ objs'[i].mass = objs[i].mass
               /\ <<objs'[i].vx, objs'[i].vy>> = <<objs[i].vx, objs[i].vy>>
               /\ objs'[i].origin = objs[i].origin
               /\ \A j \in (Len(objs) + 1)..Len(objs') :
                     \A r \in SimilarIn(objs[i], new_regions') :
                        <<objs'[j].bounds.x, objs'[j].bounds.y>>
                           # <<new_regions'[r].x, new_regions'[r].y>>
               /\ i \in Range(active_tracks')
               /\ Len(track_history'[i]) = Len(track_history[i]) + 1
               /\ track_history'[i][Len(track_history'[i])].frame_number = frame_number
               /\ track_history'[i][Len(track_history'[i])].bounds = objs[i].bounds]_vars

\* C16 witness: a track that had moved went SPLIT in the frame just processed
\* and holds a record for it
C16_Witness ==
    /\ pc = "frames"
    /\ \E i \in Range(active_tracks) :
          LET h == track_history[i]
          IN  /\ objs[i].status = "split"
              /\ Len(new_regions) >= 2
              /\ Len(h) >= 3
              /\ h[Len(h)].frame_number = frame_number - 1
              /\ h[Len(h)].bounds = h[Len(h) - 1].bounds
              /\ h[Len(h) - 1].bounds # h[1].bounds

(***************************************************************************)
(* two Trackers                                                            *)
(***************************************************************************)
\* the ids, in creation order, are increasing (hence pairwise distinct)
Increasing(ids) == \A a, b \in 1..Len(ids) : a < b => ids[a] < ids[b]

\* C17 (as claimed): when the extraction passes of two Trackers are
\* interleaved, within each run the track ids are pairwise distinct and
\* increasing in creation order.
C17_RunsAreIndependent ==
    /\ Increasing([i \in 1..Len(objs) |-> objs[i].id])
    /\ Increasing(other_tracker.ids)

(***************************************************************************)
(* export and display                                                      *)
(***************************************************************************)
\* the step is an export or display call; its outcome is the last of calls'
IsCall == Len(calls') = Len(calls) + 1

\* C18: export called with include_track_previews while no MPEGWriter is
\* configured, and display without one, raise before doing any work: no track
\* is truncated by filter_tracks, no bounds_history or prediction_history
\* entry is appended, no file is written (and no classifier is loaded).
C18_RaisesBeforeAnyWork ==
    [][(/\ IsCall
        /\ MPEGWriter = None
        /\ calls'[Len(calls')].op = "display" \/ calls'[Len(calls')].previews) =>
          /\ calls'[Len(calls')].raised = "Exception"
          /\ tracks' = tracks
          /\ Len(objs') = Len(objs)
          /\ \A i \in 1..Len(objs) :
                /\ objs'[i].bounds_history = objs[i].bounds_history
                /\ objs'[i].prediction_history = objs[i].prediction_history
          /\ files' = files
          /\ classifier' = classifier
          /\ printed' = printed
          /\ pc' = pc]_vars

\* C18 witness: a display and an export with previews were both refused on a
\* Tracker that had tracks to truncate and a classifier to load
C18_Witness ==
    /\ Len(calls) = 2
    /\ {calls[1].op, calls[2].op} = {"display", "export"}
    /\ calls[1].raised = "Exception"
    /\ calls[2].raised = "Exception"
    /\ MPEGWriter = None
    /\ pc = "extracted"
    /\ max_tracks # None
    /\ Len(tracks) > max_tracks
    /\ include_prediction
    /\ classifier = None
    /\ files = {}

\* C19: for every track export reaches, the length of its mass_history equals
\* the number of window frames exported for it, both equal to the length of
\* its history; the mismatch line is never printed.
C19_MassHistoryMatchesWindowFrames ==
    /\ printed = <<>>
    /\ \A k \in 1..Len(exported) :
          LET i == exported[k].track
          IN  /\ Len(objs[i].mass_history) = Len(exported[k].window_frames)
              /\ Len(exported[k].window_frames) = Len(track_history[i])

\* C19 witness: an export that ran to its end wrote the files of two tracks
C19_Witness ==
    /\ calls # <<>>
    /\ calls[Len(calls)].op = "export"
    /\ calls[Len(calls)].raised = "no"
    /\ Len(exported) = 2
    /\ {<<"trk", 1>>, <<"txt", 1>>, <<"trk", 2>>, <<"txt", 2>>} \subseteq files
    /\ \A k \in 1..2 : Len(exported[k].window_frames) >= FramesPerSecond * MinSeconds

(***************************************************************************)
(* history records                                                         *)
(***************************************************************************)
\* C20: each history record stores its own copy of the track's box: once
\* appended, a record (frame index, box, velocity, offset, mass) is never
\* changed by a later sync_new_location that moves the track's box, and
\* history is append-only; the record appended in a frame holds the box the
\* track has in that frame.
C20_RecordsAreCopies ==
    [][/\ Len(track_history') >= Len(track_history)
       /\ \A i \in 1..Len(track_history) :
             /\ Len(track_history'[i]) >= Len(track_history[i])
             /\ \A k \in 1..Len(track_history[i]) :
                   track_history'[i][k] = track_history[i][k]
       /\ FrameStep =>
             \A i \in Range(active_tracks') :
                LET last == track_history'[i][Len(track_history'[i])]
                IN  /\ <<last.bounds.x, last.bounds.y, last.bounds.width, last.bounds.height>>
                         = <<objs'[i].bounds.x, objs'[i].bounds.y,
                             objs'[i].bounds.width, objs'[i].bounds.height>>
                    /\ last.v = <<objs'[i].vx, objs'[i].vy>>
                    /\ last.mass = objs'[i].mass]_vars

\* C20 witness: a track's box has moved and grown since its first record was
\* stored, and the first record still shows the box the track was created on
C20_Witness ==
    \E i \in 1..Len(objs) :
       LET h == track_history[i]
       IN  /\ Len(h) >= 2
           /\ objs[i].status = "acquired"
           /\ h[1].bounds.x # objs[i].bounds.x
           /\ h[1].bounds.width # objs[i].bounds.width
           /\ 2 * h[1].bounds.x + h[1].bounds.width = objs[i].origin[1]
           /\ h[Len(h)].bounds.x = objs[i].bounds.x

(***************************************************************************)
(* end-to-end scenarios                                                    *)
(***************************************************************************)
\* movement m (in 1 / VScale pixels) is within tol hundredths of a pixel of
\* px100 hundredths of a pixel
Near(m, px100, tol) == Abs(m * 100 - px100 * VScale) <= tol * VScale

\* the statistics have just been computed
Finishes == pc = "frames" /\ pc' = "extracted"

\* C21 (as claimed): a single 10 x 10 blob moving +2 px per frame on both axes
\* for 30 frames and then gone yields exactly one surviving track, whose
\* movement is approximately 30 x 2.83 (here: within 5 %) and whose state is
\* ACQUIRED in every frame after its creation but the last, where it is LOST.
C21_SteadyBlobAsClaimed ==
    [][(clip \in SteadyClips) =>
         /\ (FrameStep /\ frame_number >= 1) =>
               /\ Len(objs') = 1
               /\ objs'[1].status = IF frame_number < 30 THEN "acquired" ELSE "lost"
         /\ Finishes =>
               /\ Near(objs'[1].movement, 30 * 283, (30 * 283) \div 20)
               /\ tracks' = <<1>>]_vars

\* C21 (amended): the same clip yields exactly one surviving track, of 30
\* records, whose movement is approximately 57.8 (within 0.5): the sum of the
\* smoothed speeds 2.83 * (1 - 0.9^k), k = 0..29; its state is NONE in the
\* frame it is created in, ACQUIRED in the 29 frames that follow and LOST in
\* the last frame.
C21_SteadyBlob ==
    [][(clip \in SteadyClips) =>
         /\ FrameStep =>
               /\ Len(objs') = 1
               /\ objs'[1].status = IF frame_number = 0 THEN "none"
                                    ELSE IF frame_number < 30 THEN "acquired" ELSE "lost"
         /\ Finishes =>
               /\ tracks' = <<1>>
               /\ Len(track_history'[1]) = 30
               /\ Near(objs'[1].movement, 5780, 50)]_vars

\* C21 witness: the steady clip has been extracted, its one track survives,
\* having been lost in the last frame only
C21_Witness ==
    /\ clip \in SteadyClips
    /\ pc = "extracted"
    /\ tracks = <<1>>
    /\ objs[1].status = "lost"
    /\ objs[1].movement > 0
    /\ track_history[1][30].frame_number = 29

Within(r, b) ==
    /\ r.x >= b.x
    /\ r.y >= b.y
    /\ r.x + r.width <= b.x + b.width
    /\ r.y + r.height <= b.y + b.height

\* C23 (as claimed): after fit_to_screen(rect, screen_bounds) rect lies within
\* screen_bounds and its width and height are unchanged, for every rect and
\* every screen_bounds.
C23_FitsAsClaimed ==
    measured # <<>> =>
       /\ Within(measured[1], rects[2])
       /\ measured[1].width = rects[1].width
       /\ measured[1].height = rects[1].height

\* C23 (amended): width and height are always unchanged, and rect lies within
\* screen_bounds whenever it is no wider and no taller than screen_bounds; a
\* wider rect ends with its right edge on the screen's and its left edge
\* outside, a taller one with its bottom edge on the screen's.
C23_FitsWhenNoLarger ==
    measured # <<>> =>
       /\ measured[1].width = rects[1].width
       /\ measured[1].height = rects[1].height
       /\ (rects[1].width <= rects[2].width /\ rects[1].height <= rects[2].height)
             => Within(measured[1], rects[2])
       /\ rects[1].width > rects[2].width
             => measured[1].x + measured[1].width = rects[2].x + rects[2].width
       /\ rects[1].height > rects[2].height
             => measured[1].y + measured[1].height = rects[2].y + rects[2].height

\* C23 witness: a rect that stuck out to the right and at the bottom of a larger
\* screen has been moved in
C23_Witness ==
    /\ measured # <<>>
    /\ rects[1].width > 0
    /\ rects[1].width < rects[2].width
    /\ rects[1].height < rects[2].height
    /\ rects[1].x + rects[1].width > rects[2].x + rects[2].width
    /\ rects[1].y + rects[1].height > rects[2].y + rects[2].height
    /\ measured[1].x < rects[1].x
    /\ measured[1].y < rects[1].y

(***************************************************************************)
(* order of association                                                    *)
(***************************************************************************)
\* the orders in which the tracks of the sequence s can be processed
Orders(s) ==
    {o \in [1..Len(s) -> Range(s)] : \A a, b \in 1..Len(s) : a # b => o[a] # o[b]}

\* C24: within one frame the association does not depend on the order in
\* which the active tracks are processed: whatever the order, every track
\* ends with the same status, box, mass and velocity, which are those a sync
\* of that track alone against the frame's regions gives; the set of consumed
\* regions and the tracks seeded are the same.
C24_OrderDoesNotMatter ==
    [][FrameStep =>
         \A o \in Orders(active_tracks) :
            LET other == associate([objs |-> objs, used |-> <<>>], o, new_regions')
                alone(i) == associate([objs |-> objs, used |-> <<>>], <<i>>, new_regions')
            IN  /\ \A i \in 1..Len(objs) : other.objs[i] = objs'[i]
                /\ \A i \in Range(active_tracks) : alone(i).objs[i] = objs'[i]
                /\ Range(other.used) = Range(used_regions')
                /\ new_tracks(new_regions', other.used, Track_track_id, frame_number)
                      = [k \in 1..(Len(objs') - Len(objs)) |-> objs'[Len(objs) + k]]]_vars

\* C24 witness: two tracks created in earlier frames were synced in one
\* frame, they returned a region in common, and they ended with different
\* statuses
C24_Witness ==
    /\ pc = "frames"
    /\ Cardinality(Range(used_regions)) < Len(used_regions)
    /\ \E i, j \in 1..Len(objs) :
          /\ i < j
          /\ objs[i].first_frame < frame_number - 1
          /\ objs[j].first_frame < frame_number - 1
          /\ track_history[i][Len(track_history[i])].frame_number = frame_number - 1
          /\ track_history[j][Len(track_history[j])].frame_number = frame_number - 1
          /\ objs[i].status # objs[j].status

(***************************************************************************)
(* the creation record                                                     *)
(***************************************************************************)
\* C25: every track created by extract gets a record in the frame of its
\* creation, taken while its status is NONE and its velocity (0, 0); after a
\* frame the tracks with status NONE are exactly those created in it; and
\* when get_tracks_statistics runs every history is non-empty, so its loop
\* takes no maximum of an empty sequence.
C25_CreationRecord ==
    [][/\ FrameStep =>
            /\ \A i \in 1..Len(objs') :
                  (objs'[i].status = TARGET_NONE) <=> (i > Len(objs))
            /\ \A i \in (Len(objs) + 1)..Len(objs') :
                  /\ objs'[i].vx = 0 /\ objs'[i].vy = 0
                  /\ Len(track_history'[i]) = 1
                  /\ track_history'[i][1].frame_number = frame_number
                  /\ track_history'[i][1].frame_number = objs'[i].first_frame
                  /\ track_history'[i][1].v = <<0, 0>>
       /\ (pc = "frames" /\ pc' # "frames") =>
            /\ \A i \in 1..Len(objs) : track_history[i] # <<>>
            /\ ~statistics_loop(objs, track_history, [i \in 1..Len(objs) |-> i], <<>>).raised
      ]_vars

\* C25 witness: get_tracks_statistics has run over a track created in the
\* last frame, which has its creation record alone, and over a track that
\* was synced after its creation
C25_Witness ==
    /\ pc \in {"extracted", "raised"}
    /\ \E i, j \in 1..Len(objs) :
          /\ objs[i].status = TARGET_NONE
          /\ Len(track_history[i]) = 1
          /\ objs[j].status # TARGET_NONE
          /\ Len(track_history[j]) >= 1

(***************************************************************************)
(* equal scores                                                            *)
(***************************************************************************)
\* C26 (as claimed): get_tracks_statistics completes normally for every set
\* of tracks that pass the filter, two or more of them having exactly equal
\* scores included, and leaves in tracks a ranking of exactly those tracks.
C26_StatisticsComplete ==
    [][(pc = "frames" /\ pc' # "frames") =>
          /\ pc' = "extracted"
          /\ Range(tracks') = {i \in 1..Len(objs) : PassesFilter(track_history[i])}
          /\ Len(tracks') = Cardinality(Range(tracks'))
          /\ \A k \in 1..(Len(tracks') - 1) :
                objs'[tracks'[k]].score >= objs'[tracks'[k + 1]].score]_vars

(***************************************************************************)
(* repeated export                                                         *)
(***************************************************************************)
\* C27 (as claimed): after any number of export calls following one extract,
\* the bounds_history of every exported track has exactly one box per history
\* record: its length is that of the track's history and of its mass_history,
\* and its boxes are those of the records.
C27_OneBoxPerRecord ==
    \A k \in 1..Len(exported) :
       LET i == exported[k].track
       IN  /\ Len(objs[i].bounds_history) = Len(track_history[i])
           /\ Len(objs[i].bounds_history) = Len(objs[i].mass_history)
           /\ objs[i].bounds_history
                 = [r \in 1..Len(track_history[i]) |-> track_history[i][r].bounds]

====
